---- MODULE Spec2Model ----
(***************************************************************************)
(* Model of src/get_news.py: the trigger-fetch-and-dedupe pipeline, the    *)
(* URL deduplicator and the daily API usage ledger.                        *)
(*                                                                         *)
(*   Spec        one fetch_news_by_query or fetch_sales_triggers call, the *)
(*               batch loop one iteration at a time, against a search API  *)
(*               that may raise or answer on every request                 *)
(*   SpecLedger  track_api_usage and get_api_usage_today called one after  *)
(*               another while the clock runs                              *)
(*   SpecRace    two track_api_usage invocations interleaved               *)
(*   SpecDedup   deduplicate_articles applied to every bounded list        *)
(*                                                                         *)
(* The ledger file is either absent, unparseable, or a JSON object of      *)
(* ISO date -> count, and it can always be written.                        *)
(***************************************************************************)
EXTENDS Integers, Sequences, FiniteSets, TLC

VARIABLES
    usage_file,     \* data/.api_usage.json: [state, data]
    now,            \* the wall clock, as a day number (datetime.now())
    pc,             \* position of the sequential caller
    articles,       \* deduplicate_articles: the argument
    unique,         \* deduplicate_articles(articles)
    unique2,        \* deduplicate_articles(unique)
    before,         \* usage_file as it was when the last call began
    today,          \* `today` as the last track_api_usage read it
    ret,            \* what the last call returned
    rpc,            \* concurrent writers: each one's position
    local,          \* concurrent writers: each one's today and usage_data
    overlap,        \* concurrent writers: did two invocations overlap
    op,             \* the fetch function called
    queries_with_region, \* fetch_sales_triggers: the catalog being iterated
    idx,            \* fetch_sales_triggers: catalog entries already handled
    from_date,      \* fetch_sales_triggers: start of the date window
    to_date,        \* fetch_sales_triggers: end of the date window
    all_articles,   \* fetch_sales_triggers: the accumulator
    requests,       \* the requests the call has sent to the search API
    outcomes        \* what the search API did with each of them

vars == <<usage_file, now, pc, articles, unique, unique2, before, today, ret,
          rpc, local, overlap, op, queries_with_region, idx,
          from_date, to_date, all_articles, requests, outcomes>>

fetchVars == <<op, queries_with_region, idx, from_date, to_date,
               all_articles, requests, outcomes>>

dedupVars == <<articles, unique, unique2>>

ledgerVars == <<before, today, ret>>

raceVars == <<rpc, local, overlap>>

-----------------------------------------------------------------------------
(* Bounds *)

MaxLen == 3         \* longest article list handed to deduplicate_articles
MaxDay == 9         \* last day the clock reaches
MaxEntries == 2     \* most buckets in a ledger found on disk
MaxCount == 2       \* largest count in a ledger found on disk; calls stop there
MaxArticles == 4    \* most articles the search API returns to one fetch call

-----------------------------------------------------------------------------
(* Articles *)

\* article.get("url") of an article without the key
None == "None"

Urls == {None, "", "u1", "u2", "u3"}

Titles == {"t1", "t2"}

\* trigger_type of an article the pipeline has not stamped
NoTag == "-"

Article(u, t, g) == [url |-> u, title |-> t, trigger_type |-> g]

RawArticles == {Article(u, t, NoTag) : u \in Urls, t \in Titles}

SeqsUpTo(S, n) == UNION {[1..k -> S] : k \in 0..n}

-----------------------------------------------------------------------------
(* deduplicate_articles *)

\* a url that is falsy only when it is missing
TruthyKeepsEmpty(url) == url # None

\* Python truthiness of a url: None and "" are falsy
Truthy(url) == url # None /\ url # ""

\* no membership test at all
KeepAlways(url, seen_urls) == Truthy(url)

\* `if url and url not in seen_urls`
Keep(url, seen_urls) == Truthy(url) /\ url \notin seen_urls

RECURSIVE DedupLoop(_, _, _, _)
DedupLoop(arts, i, seen_urls, uniq) ==
    IF i > Len(arts) THEN uniq
    ELSE LET url == arts[i].url IN
         IF Keep(url, seen_urls)
         THEN DedupLoop(arts, i + 1, seen_urls \cup {url}, Append(uniq, arts[i]))
         ELSE DedupLoop(arts, i + 1, seen_urls, uniq)

\* the loop starts at the second article
DedupSkipFirst(arts) == DedupLoop(arts, 2, {}, <<>>)

deduplicate_articles(arts) == DedupLoop(arts, 1, {}, <<>>)

-----------------------------------------------------------------------------
(* Dates *)

\* date.isoformat() of day number n: the string "YYYY-MM-DD", held as its
\* three zero-padded fields; day 0 is 2023-12-28
DateOf(n) == IF n <= 3 THEN <<2023, 12, 28 + n>> ELSE <<2024, 1, n - 3>>

\* the date `today` holds before any track_api_usage ran
NoDate == <<0, 0, 0>>

\* the comparison looks at the day of the month alone
IsoGeqDayOnly(k, cutoff_date) == k[3] >= cutoff_date[3]

\* `k >= cutoff_date` on two ISO strings: fields of fixed width compare
\* character by character as the field values do, left to right
IsoGeq(k, cutoff_date) ==
    \/ k[1] > cutoff_date[1]
    \/ k[1] = cutoff_date[1] /\ k[2] > cutoff_date[2]
    \/ k[1] = cutoff_date[1] /\ k[2] = cutoff_date[2] /\ k[3] >= cutoff_date[3]

-----------------------------------------------------------------------------
(* The usage ledger: track_api_usage and get_api_usage_today *)

RetentionDays == 7

EmptyLedger == [k \in {} |-> 0]

MissingFile == [state |-> "missing", data |-> EmptyLedger]

\* a file json.load cannot parse (truncated, empty)
CorruptFile == [state |-> "corrupt", data |-> EmptyLedger]

OkFile(usage_data) == [state |-> "ok", data |-> usage_data]

\* the file is never read: every call starts from `{}`
LoadUsageIgnoresFile(file) == EmptyLedger

\* `usage_data = {}`, then json.load when the file exists, `{}` when it fails
LoadUsage(file) == IF file.state = "ok" THEN file.data ELSE EmptyLedger

\* today's bucket is set to 1 instead of incremented
IncrementResets(usage_data, t) ==
    [k \in DOMAIN usage_data \cup {t} |-> IF k = t THEN 1 ELSE usage_data[k]]

\* `if today not in usage_data: usage_data[today] = 0`, `usage_data[today] += 1`
Increment(usage_data, t) ==
    [k \in DOMAIN usage_data \cup {t} |->
        IF k = t
        THEN (IF t \in DOMAIN usage_data THEN usage_data[t] ELSE 0) + 1
        ELSE usage_data[k]]

\* `{k: v for k, v in usage_data.items() if k >= cutoff_date}`
Cleanup(usage_data, cutoff_date) ==
    [k \in {d \in DOMAIN usage_data : IsoGeq(d, cutoff_date)} |-> usage_data[k]]

\* the file after track_api_usage, the clock reading day t1 at `today = ...`
\* and day t2 at `cutoff_date = ...`
track_api_usage(file, t1, t2) ==
    OkFile(Cleanup(Increment(LoadUsage(file), DateOf(t1)),
                   DateOf(t2 - RetentionDays)))

\* get_api_usage_today with the clock at day t: `usage_data.get(today, 0)`,
\* 0 when the file is missing or cannot be parsed
get_api_usage_today(file, t) ==
    IF file.state = "ok" /\ DateOf(t) \in DOMAIN file.data
    THEN file.data[DateOf(t)]
    ELSE 0

-----------------------------------------------------------------------------
(* The search API and the trigger catalog *)

ApiUrls == {"", "u1", "u2", "u3"}

\* the articles the remote API may hand back, before any stamping
ApiArticles == {Article(u, "t1", NoTag) : u \in ApiUrls}

Raised == [kind |-> "raise", status |-> "-", articles |-> <<>>]

Response(s, arts) == [kind |-> "response", status |-> s, articles |-> arts]

\* what one get_everything call may do: raise, answer with an error status
\* (no articles), or answer "ok" with at most `room` articles
Outcomes(room) ==
    {Raised, Response("error", <<>>)}
        \cup {Response("ok", arts) : arts \in SeqsUpTo(ApiArticles, room)}

\* config/default_triggers.py; a dict, held in insertion order
DEFAULT_TRIGGERS == <<
    [name |-> "Patent & IP",
     query |-> "(company OR startup OR firm OR corporation) AND (patent OR \"intellectual property\" OR \"IP portfolio\" OR trademark) AND (granted OR filed OR awarded OR secures)"],
    [name |-> "Product Launch",
     query |-> "(company OR startup OR firm) AND (\"product launch\" OR \"launches\" OR \"unveils\" OR \"announces\" OR \"introduces\" OR \"new product\")"],
    [name |-> "Expansion",
     query |-> "(company OR startup OR firm) AND (expansion OR \"opens office\" OR \"opening\" OR \"expands into\" OR \"enters market\" OR \"new location\")"] >>

EntryA == [name |-> "A", query |-> "foo"]

EntryB == [name |-> "B", query |-> "bar"]

\* the trigger_queries arguments a caller passes; is_none is the omitted one
TriggerArgs ==
    {[is_none |-> TRUE, items |-> <<>>]}
        \cup {[is_none |-> FALSE, items |-> c] :
                 c \in {<<>>, <<EntryA>>, <<EntryA, EntryB>>, <<EntryB, EntryA>>}}

\* the region arguments a caller passes
RegionArgs == {None, "", "Singapore"}

\* `if trigger_queries is None: trigger_queries = DEFAULT_TRIGGERS`
Catalog(arg) == IF arg.is_none THEN DEFAULT_TRIGGERS ELSE arg.items

\* `queries_with_region`: every query rewritten when a region is given
WithRegion(catalog, reg) ==
    IF Truthy(reg)
    THEN [i \in 1..Len(catalog) |->
             [name |-> catalog[i].name,
              query |-> "(" \o catalog[i].query \o ") AND " \o reg]]
    ELSE catalog

ExcludeDomains == "arxiv.org,ieee.org,springer.com"

DefaultQuery == "patent OR \"intellectual property\""

\* the request fetch_news_by_query sends
NewsRequest(query, days_back, sort_by, t) ==
    [q |-> query, from_param |-> DateOf(t - days_back), to |-> DateOf(t),
     sort_by |-> sort_by, language |-> "en", exclude_domains |-> ExcludeDomains]

\* the request fetch_sales_triggers sends for one catalog entry
TriggerRequest(query, from, to, sort_by) ==
    [q |-> query, from_param |-> from, to |-> to,
     sort_by |-> sort_by, language |-> "en", exclude_domains |-> None]

\* the usage call moved under the check for articles
TrackedWhenAccepted(outcome) ==
    /\ outcome.kind = "response"
    /\ outcome.status = "ok"
    /\ outcome.articles # <<>>

\* `track_api_usage()` follows get_everything inside the try block: it runs
\* when the call returned and is skipped when the call raised
Tracked(outcome) == outcome.kind = "response"

\* the articles are appended as the API sent them
StampNothing(arts, trigger_name) == arts

\* `article["trigger_type"] = trigger_name` for every article of a response
Stamp(arts, trigger_name) ==
    [i \in 1..Len(arts) |-> [arts[i] EXCEPT !.trigger_type = trigger_name]]

\* `if response.get("status") == "ok" and response.get("articles")`
Accepted(response) == response.status = "ok" /\ response.articles # <<>>

\* the handler re-raises
AfterExceptionAbort == "raised"

\* `except Exception as e: print(...); continue`: where control goes next
AfterException == "loop"

NoReturn == [kind |-> "pending"]

ReturnNone == [kind |-> "None"]

ReturnResponse(response) ==
    [kind |-> "response", status |-> response.status,
     articles |-> response.articles]

\* `{"status": "ok", "totalResults": len(unique_articles), "articles": ...}`
ReturnResult(unique_articles) ==
    [kind |-> "result", status |-> "ok",
     totalResults |-> Len(unique_articles), articles |-> unique_articles]

-----------------------------------------------------------------------------
(* States before anything ran *)

\* the clock starts far enough on for the ledger to hold days past retention
FirstDay == RetentionDays + 1

Procs == {1, 2}

DedupIdle == articles = <<>> /\ unique = <<>> /\ unique2 = <<>>

LedgerIdle == before = usage_file /\ today = NoDate /\ ret = 0

RaceIdle ==
    /\ rpc = [p \in Procs |-> "idle"]
    /\ local = [p \in Procs |-> [today |-> NoDate, usage_data |-> EmptyLedger]]
    /\ overlap = FALSE

FetchIdle ==
    /\ op = "none"
    /\ queries_with_region = <<>>
    /\ idx = 0
    /\ from_date = NoDate
    /\ to_date = NoDate
    /\ all_articles = <<>>
    /\ requests = <<>>
    /\ outcomes = <<>>

\* the ISO dates of the days the model's calendar spans
Dates == {DateOf(d) : d \in 0..MaxDay}

\* the ledgers a run may find on disk
Ledgers ==
    UNION {[D -> 1..MaxCount] :
              D \in {S \in SUBSET Dates : Cardinality(S) <= MaxEntries}}

InitialFiles == {MissingFile, CorruptFile} \cup {OkFile(L) : L \in Ledgers}

-----------------------------------------------------------------------------
(* Actions: deduplicate_articles called directly *)

\* a caller applies deduplicate_articles to a list
DeduplicateArticles ==
    /\ pc = "dedup"
    /\ unique' = deduplicate_articles(articles)
    /\ pc' = "deduped"
    /\ UNCHANGED <<usage_file, now, articles, unique2, ledgerVars, raceVars, fetchVars>>

\* and applies it to the result once more
DeduplicateAgain ==
    /\ pc = "deduped"
    /\ unique2' = deduplicate_articles(unique)
    /\ pc' = "deduped2"
    /\ UNCHANGED <<usage_file, now, articles, unique, ledgerVars, raceVars, fetchVars>>

InitDedup ==
    /\ usage_file = MissingFile
    /\ now = FirstDay
    /\ pc = "dedup"
    /\ articles \in SeqsUpTo(RawArticles, MaxLen)
    /\ unique = <<>>
    /\ unique2 = <<>>
    /\ LedgerIdle
    /\ RaceIdle
    /\ FetchIdle

NextDedup == DeduplicateArticles \/ DeduplicateAgain

SpecDedup == InitDedup /\ [][NextDedup]_vars

-----------------------------------------------------------------------------
(* Claims about deduplicate_articles *)

Deduped == pc \in {"deduped", "deduped2"}

\* C3: the output of deduplicate_articles has pairwise distinct URLs and no
\* article whose URL is missing or empty.
C3_DistinctNonEmptyUrls ==
    Deduped =>
        /\ \A i \in 1..Len(unique) : unique[i].url # None /\ unique[i].url # ""
        /\ \A i, j \in 1..Len(unique) : i # j => unique[i].url # unique[j].url

\* an input with a repeated URL, a missing URL and an empty URL was deduplicated
C3_Witness ==
    /\ Deduped
    /\ \E i, j \in 1..Len(articles) : i < j /\ articles[i].url = articles[j].url
                                       /\ articles[i].url = "u1"
    /\ \E i \in 1..Len(articles) : articles[i].url \in {None, ""}
    /\ Len(unique) = 1

\* the indices of the input that hold the first occurrence of a non-empty URL
FirstOccurrences(arts) ==
    {i \in 1..Len(arts) :
        /\ arts[i].url \notin {None, ""}
        /\ \A j \in 1..(i - 1) : arts[j].url # arts[i].url}

\* C4: the output is the subsequence of the input made of the first
\* occurrence of each non-empty URL, in input order: some strictly increasing
\* index map from the output onto the first-occurrence indices reproduces it.
C4_StableFirstOccurrence ==
    Deduped =>
        LET F == FirstOccurrences(articles) IN
        /\ Len(unique) = Cardinality(F)
        /\ \A k \in 1..Len(unique) :
               \E i \in F :
                   /\ Cardinality({j \in F : j < i}) = k - 1
                   /\ unique[k] = articles[i]

\* a later article with the same URL but other content was discarded, and two
\* kept articles stand in input order
C4_Witness ==
    /\ Deduped
    /\ Len(articles) = 3
    /\ articles[1].url = "u2" /\ articles[2].url = "u1" /\ articles[3].url = "u2"
    /\ articles[1].title # articles[3].title
    /\ unique = <<articles[1], articles[2]>>

\* C10: deduplicate_articles(deduplicate_articles(L)) = deduplicate_articles(L)
C10_Idempotent == pc = "deduped2" => unique2 = unique

\* the second application ran on a result that is shorter than the input
C10_Witness ==
    /\ pc = "deduped2"
    /\ Len(unique) = 2
    /\ Len(articles) = 3

-----------------------------------------------------------------------------
(* Actions: the ledger called directly, one call after another *)

\* midnight passes
Tick ==
    /\ now < MaxDay
    /\ now' = now + 1
    /\ pc' = IF pc \in {"tracked", "read"} THEN "idle" ELSE pc
    /\ UNCHANGED <<usage_file, dedupVars, ledgerVars, raceVars, fetchVars>>

\* one whole track_api_usage(); midnight may pass between its two clock reads
TrackApiUsage ==
    /\ pc \in {"idle", "tracked", "read"}
    /\ get_api_usage_today(usage_file, now) < MaxCount
    /\ \E t2 \in {now, now + 1} :
           /\ t2 <= MaxDay
           /\ usage_file' = track_api_usage(usage_file, now, t2)
           /\ now' = t2
    /\ before' = usage_file
    /\ today' = DateOf(now)
    /\ pc' = "tracked"
    /\ UNCHANGED <<ret, dedupVars, raceVars, fetchVars>>

\* one whole get_api_usage_today()
GetApiUsageToday ==
    /\ pc \in {"idle", "tracked", "read"}
    /\ ret' = get_api_usage_today(usage_file, now)
    /\ pc' = "read"
    /\ UNCHANGED <<usage_file, now, before, today, dedupVars, raceVars, fetchVars>>

InitLedger ==
    /\ usage_file \in InitialFiles
    /\ now = FirstDay
    /\ pc = "idle"
    /\ DedupIdle
    /\ LedgerIdle
    /\ RaceIdle
    /\ FetchIdle

NextLedger == TrackApiUsage \/ GetApiUsageToday \/ Tick

SpecLedger == InitLedger /\ [][NextLedger]_vars

-----------------------------------------------------------------------------
(* Claims about the ledger *)

\* the day number an ISO date of the calendar stands for
DayOf(k) == CHOOSE n \in -31..31 : DateOf(n) = k

\* C6: after any track_api_usage the persisted ledger holds no entry dated
\* more than 7 days before today, and every earlier entry dated within the
\* window is still there with its count, today's included.
C6_PrunedToWindow ==
    pc = "tracked" =>
        /\ usage_file.state = "ok"
        /\ \A k \in DOMAIN usage_file.data : DayOf(k) >= now - 7
        /\ today \in DOMAIN usage_file.data
        /\ before.state = "ok" =>
               \A k \in DOMAIN before.data :
                   DayOf(k) >= now - 7 =>
                       /\ k \in DOMAIN usage_file.data
                       /\ k # today => usage_file.data[k] = before.data[k]

\* a ledger with a bucket 8 days old and a bucket exactly 7 days old was
\* written back: the first is gone, the second is kept
C6_Witness ==
    /\ pc = "tracked"
    /\ before.state = "ok"
    /\ DOMAIN before.data = {DateOf(now - 8), DateOf(now - 7)}
    /\ DOMAIN usage_file.data = {DateOf(now - 7), today}

\* today's count before the last track_api_usage, 0 when there was none
PrevCount ==
    IF before.state = "ok" /\ today \in DOMAIN before.data
    THEN before.data[today]
    ELSE 0

\* C7: track_api_usage sets today's count to its previous value plus one (0
\* for an absent bucket or a missing or corrupt store), leaves exactly
\* {today: 1} on an empty store, and get_api_usage_today then returns the count.
C7_IncrementsToday ==
    /\ pc = "tracked" =>
           /\ usage_file.state = "ok"
           /\ today \in DOMAIN usage_file.data
           /\ usage_file.data[today] = PrevCount + 1
           /\ (before.state # "ok" \/ DOMAIN before.data = {}) =>
                  usage_file.data = (today :> 1)
    /\ (pc = "read" /\ today = DateOf(now)) => ret = PrevCount + 1

\* one call on a store that could not be parsed left {today: 1}, and the
\* count was read back as 1
C7_Witness ==
    /\ pc = "read"
    /\ today = DateOf(now)
    /\ before.state = "corrupt"
    /\ usage_file.data = (today :> 1)
    /\ ret = 1

-----------------------------------------------------------------------------
(* Actions: two track_api_usage invocations running at once.  Each takes    *)
(* three steps: load, update, persist.                                      *)

Other(p) == CHOOSE q \in Procs : q # p

\* `today = ...` and the load of the file
RLoad(p) ==
    /\ rpc[p] = "idle"
    /\ rpc' = [rpc EXCEPT ![p] = "loaded"]
    /\ local' = [local EXCEPT ![p] = [today |-> DateOf(now),
                                      usage_data |-> LoadUsage(usage_file)]]
    /\ overlap' = (overlap \/ rpc[Other(p)] \in {"loaded", "updated"})
    /\ UNCHANGED <<usage_file, now, pc, dedupVars, ledgerVars, fetchVars>>

\* the increment of today's bucket and the cleanup of old entries
RUpdate(p) ==
    /\ rpc[p] = "loaded"
    /\ rpc' = [rpc EXCEPT ![p] = "updated"]
    /\ local' = [local EXCEPT ![p].usage_data =
                     Cleanup(Increment(local[p].usage_data, local[p].today),
                             DateOf(now - RetentionDays))]
    /\ UNCHANGED <<usage_file, now, pc, overlap, dedupVars, ledgerVars, fetchVars>>

\* `json.dump(usage_data, f)`
RPersist(p) ==
    /\ rpc[p] = "updated"
    /\ rpc' = [rpc EXCEPT ![p] = "done"]
    /\ usage_file' = OkFile(local[p].usage_data)
    /\ UNCHANGED <<now, pc, local, overlap, dedupVars, ledgerVars, fetchVars>>

InitRace ==
    /\ usage_file \in InitialFiles
    /\ now = FirstDay
    /\ pc = "idle"
    /\ DedupIdle
    /\ LedgerIdle
    /\ RaceIdle
    /\ FetchIdle

NextRace == (\E p \in Procs : RLoad(p) \/ RUpdate(p) \/ RPersist(p)) \/ Tick

SpecRace == InitRace /\ [][NextRace]_vars

-----------------------------------------------------------------------------
(* Claims about concurrent writers *)

\* the count a file holds for date t
CountOn(file, t) ==
    IF file.state = "ok" /\ t \in DOMAIN file.data THEN file.data[t] ELSE 0

BothDone == \A p \in Procs : rpc[p] = "done"

SameToday == local[1].today = local[2].today

\* C8: when two track_api_usage invocations of the same day run one after
\* the other, today's count grows by 2.  (That interleaved invocations can
\* lose an increment is the reachable state C8_LostIncrement.)
C8_SequentialGrowsByTwo ==
    (BothDone /\ SameToday /\ ~overlap) =>
        CountOn(usage_file, local[1].today) = CountOn(before, local[1].today) + 2

\* both invocations have completed and today's count has grown by only 1
C8_LostIncrement ==
    /\ BothDone
    /\ SameToday
    /\ overlap
    /\ CountOn(usage_file, local[1].today) = CountOn(before, local[1].today) + 1

-----------------------------------------------------------------------------
(* Actions: the fetch functions.  A fetch runs within one day: the clock   *)
(* does not pass midnight while it runs.                                   *)

NewsDaysBack == 30

TriggerDaysBack == 7

\* the ledger files a fetch may find: none, an unparseable one, one with a
\* bucket for today, and one with a bucket past retention as well
FetchFiles ==
    {MissingFile, CorruptFile,
     OkFile(DateOf(FirstDay) :> 1),
     OkFile(DateOf(0) :> 1 @@ DateOf(FirstDay) :> 1)}

\* one whole fetch_news_by_query(query); track_api_usage runs only when
\* get_everything returned
FetchNewsByQuery ==
    /\ pc = "idle"
    /\ \E query \in {DefaultQuery, "foo"}, outcome \in Outcomes(MaxArticles) :
          /\ requests' = <<NewsRequest(query, NewsDaysBack, "publishedAt", now)>>
          /\ outcomes' = <<outcome>>
          /\ usage_file' = IF Tracked(outcome)
                            THEN track_api_usage(usage_file, now, now)
                            ELSE usage_file
          /\ today' = IF Tracked(outcome) THEN DateOf(now) ELSE today
          /\ ret' = IF outcome.kind = "raise"
                     THEN ReturnNone
                     ELSE ReturnResponse(outcome)
    /\ op' = "fetch_news_by_query"
    /\ before' = usage_file
    /\ pc' = "returned"
    /\ UNCHANGED <<now, queries_with_region, idx, from_date, to_date,
                   all_articles, dedupVars, raceVars>>

\* fetch_sales_triggers(trigger_queries, region=...) up to its loop
StartFetchSalesTriggers ==
    /\ pc = "idle"
    /\ \E trigger_queries \in TriggerArgs, region \in RegionArgs :
          queries_with_region' = WithRegion(Catalog(trigger_queries), region)
    /\ all_articles' = <<>>
    /\ from_date' = DateOf(now - TriggerDaysBack)
    /\ to_date' = DateOf(now)
    /\ idx' = 0
    /\ requests' = <<>>
    /\ outcomes' = <<>>
    /\ op' = "fetch_sales_triggers"
    /\ before' = usage_file
    /\ pc' = "loop"
    /\ UNCHANGED <<usage_file, now, today, ret, dedupVars, raceVars>>

\* one iteration of `for trigger_name, query in queries_with_region.items()`
QueryStep ==
    /\ pc = "loop"
    /\ idx < Len(queries_with_region)
    /\ LET entry == queries_with_region[idx + 1] IN
       \E outcome \in Outcomes(MaxArticles - Len(all_articles)) :
          /\ requests' = Append(requests,
                 TriggerRequest(entry.query, from_date, to_date, "publishedAt"))
          /\ outcomes' = Append(outcomes, outcome)
          /\ usage_file' = IF Tracked(outcome)
                            THEN track_api_usage(usage_file, now, now)
                            ELSE usage_file
          /\ today' = IF Tracked(outcome) THEN DateOf(now) ELSE today
          /\ IF outcome.kind = "raise"
             THEN /\ pc' = AfterException
                  /\ UNCHANGED all_articles
             ELSE /\ pc' = "loop"
                  /\ all_articles' =
                        IF Accepted(outcome)
                        THEN all_articles \o Stamp(outcome.articles, entry.name)
                        ELSE all_articles
    /\ idx' = idx + 1
    /\ UNCHANGED <<now, op, before, ret, queries_with_region, from_date,
                   to_date, dedupVars, raceVars>>

\* after the loop: deduplicate_articles and the returned dict
FinishFetchSalesTriggers ==
    /\ pc = "loop"
    /\ idx = Len(queries_with_region)
    /\ ret' = ReturnResult(deduplicate_articles(all_articles))
    /\ pc' = "returned"
    /\ UNCHANGED <<usage_file, now, before, today, dedupVars, raceVars, op,
                   queries_with_region, idx, from_date, to_date,
                   all_articles, requests, outcomes>>

Init ==
    /\ usage_file \in FetchFiles
    /\ now = FirstDay
    /\ pc = "idle"
    /\ DedupIdle
    /\ before = usage_file /\ today = NoDate /\ ret = NoReturn
    /\ RaceIdle
    /\ FetchIdle

Next ==
    \/ FetchNewsByQuery
    \/ StartFetchSalesTriggers
    \/ QueryStep
    \/ FinishFetchSalesTriggers

Spec == Init /\ [][Next]_vars

-----------------------------------------------------------------------------
(* Claims about the fetch functions *)

Returned == pc = "returned"

\* the calls of this fetch that came back from the search API
ReturnedCalls == {i \in 1..Len(outcomes) : outcomes[i].kind = "response"}

\* today's count grew by n over the fetch
GrewBy(n) ==
    CountOn(usage_file, DateOf(now)) = CountOn(before, DateOf(now)) + n

\* C1 as claimed: every attempted search call, failed ones included,
\* increments today's ledger entry.
C1_EveryAttemptCounted ==
    Returned => GrewBy(Len(requests))

\* C1 as the code has it: within one day, today's ledger entry grows by the
\* number of search calls that returned without raising; a call that raised
\* is not counted.
C1_ReturnedCallsCounted ==
    Returned => GrewBy(Cardinality(ReturnedCalls))

\* a batch of two queries, one raising and one returning, left today's count
\* one higher
C1_Witness ==
    /\ Returned
    /\ op = "fetch_sales_triggers"
    /\ Len(requests) = 2
    /\ Cardinality(ReturnedCalls) = 1
    /\ GrewBy(1)

\* the queries of the batch whose call returned with status "ok"
Succeeded ==
    {i \in 1..Len(outcomes) :
        outcomes[i].kind = "response" /\ outcomes[i].status = "ok"}

Batch == Returned /\ op = "fetch_sales_triggers"

\* C2: a failing query is not fatal to fetch_sales_triggers: no exception
\* leaves it, a request is issued for every catalog entry in catalog order,
\* and the result holds, without repeated URLs, the articles of exactly the
\* queries that succeeded.
C2_PartialFailureNonFatal ==
    /\ pc # "raised"
    /\ Batch =>
          /\ ret.kind = "result"
          /\ Len(requests) = Len(queries_with_region)
          /\ \A i \in 1..Len(requests) :
                 requests[i].q = queries_with_region[i].query
          /\ \A k \in 1..Len(ret.articles) :
                 \E i \in Succeeded :
                    \E j \in 1..Len(outcomes[i].articles) :
                       /\ ret.articles[k].url = outcomes[i].articles[j].url
                       /\ ret.articles[k].title = outcomes[i].articles[j].title
                       /\ ret.articles[k].trigger_type =
                              queries_with_region[i].name
          /\ \A i \in Succeeded :
                 \A j \in 1..Len(outcomes[i].articles) :
                    outcomes[i].articles[j].url \notin {None, ""} =>
                       \E k \in 1..Len(ret.articles) :
                          ret.articles[k].url = outcomes[i].articles[j].url
          /\ \A k, l \in 1..Len(ret.articles) :
                 k # l => ret.articles[k].url # ret.articles[l].url

\* query A raised, query B returned one article: the result is that article
C2_Witness ==
    /\ Batch
    /\ queries_with_region = <<EntryA, EntryB>>
    /\ outcomes[1].kind = "raise"
    /\ outcomes[2] = Response("ok", <<Article("u1", "t1", NoTag)>>)
    /\ Len(requests) = 2
    /\ ret.articles = <<Article("u1", "t1", "B")>>

\* the first query, in catalog order, whose response held url u
FirstQueryWith(u) ==
    CHOOSE i \in 1..Len(outcomes) :
        /\ \E j \in 1..Len(outcomes[i].articles) : outcomes[i].articles[j].url = u
        /\ \A h \in 1..(i - 1) :
               \A j \in 1..Len(outcomes[h].articles) : outcomes[h].articles[j].url # u

\* C5: in the result of fetch_sales_triggers every article carries the label
\* of the first query, in catalog order, whose response held its URL, and
\* totalResults is the number of articles returned.
C5_FirstQueryTagAndTotal ==
    Batch =>
        /\ ret.totalResults = Len(ret.articles)
        /\ \A k \in 1..Len(ret.articles) :
               /\ \E i \in 1..Len(outcomes) :
                      \E j \in 1..Len(outcomes[i].articles) :
                         outcomes[i].articles[j].url = ret.articles[k].url
               /\ ret.articles[k].trigger_type =
                      queries_with_region[FirstQueryWith(ret.articles[k].url)].name

\* catalog {A, B}, A returning u1, u2 and B returning u2, u3: the result is
\* u1(A), u2(A), u3(B) with totalResults 3
C5_Witness ==
    /\ Batch
    /\ queries_with_region = <<EntryA, EntryB>>
    /\ outcomes = <<Response("ok", <<Article("u1", "t1", NoTag),
                                     Article("u2", "t1", NoTag)>>),
                    Response("ok", <<Article("u2", "t1", NoTag),
                                     Article("u3", "t1", NoTag)>>)>>
    /\ ret.totalResults = 3
    /\ ret.articles = <<Article("u1", "t1", "A"), Article("u2", "t1", "A"),
                        Article("u3", "t1", "B")>>

\* C9: every request fetch_sales_triggers issues excludes the academic
\* journal domains arxiv.org, ieee.org and springer.com, as a
\* fetch_news_by_query request does.
C9_TriggerRequestsExcludeJournals ==
    \A i \in 1..Len(requests) :
        requests[i].exclude_domains = "arxiv.org,ieee.org,springer.com"

====
